---- MODULE Spec2Model ----
(***************************************************************************)
(* Model of diff.py: process_file (one back-test sheet -> per-instrument   *)
(* summary, best and worst instrument) and analyze_directory (the per-file *)
(* loop with its two accumulators, the global merge, the global best and   *)
(* worst, and the consistency classification).                             *)
(*                                                                         *)
(* A sheet is the table pandas.read_excel returns: its column set and its  *)
(* rows, each row the cell values of the columns 交易品种 ("symbol") and    *)
(* 盈利 ("profit").  Instrument identifiers are cell values: 0 is the cell  *)
(* value Python takes for false, 1 one it takes for true.  Profits are     *)
(* integers (a loss, a zero-profit trade, a win), so every sum is exact.   *)
(***************************************************************************)
EXTENDS Integers, Sequences, FiniteSets, TLC

\* Files in the directory, and trade records in the directory as a whole.
MaxFiles == 2
MaxTrades == 2

Symbols == {0, 1}
Amounts == {0 - 1, 0, 1}

VARIABLES files, pc, idx, all_results, symbol_records, stdout,
          global_summary, global_top_profit, global_top_loss,
          profitable_symbols, loss_symbols

vars == <<files, pc, idx, all_results, symbol_records, stdout,
          global_summary, global_top_profit, global_top_loss,
          profitable_symbols, loss_symbols>>

(***************************************************************************)
(* Generic helpers                                                         *)
(***************************************************************************)
RECURSIVE SumSeq(_)
SumSeq(s) == IF s = <<>> THEN 0 ELSE Head(s) + SumSeq(Tail(s))

RECURSIVE AllOrders(_)
AllOrders(S) ==
    IF S = {} THEN {<<>>}
    ELSE UNION {{<<x>> \o q : q \in AllOrders(S \ {x})} : x \in S}

Range(s) == {s[k] : k \in DOMAIN s}

\* Python truthiness of a cell value used as a condition: 0 is falsy.
Truthy(v) == v # 0

\* Python None, for a variable that holds a symbol or a (symbol, value) pair.
None == <<>>
Unset == 0 - 1

(***************************************************************************)
(* process_file                                                            *)
(***************************************************************************)
required_cols == {"symbol", "profit"}

\* df.iloc[:-1]
iloc_drop_last(rows) == SubSeq(rows, 1, Len(rows) - 1)

IsPos(x) == x > 0
IsNeg(x) == x < 0

\* The 盈利 cells of the rows of one group, in row order.
RECURSIVE GroupCol(_, _)
GroupCol(rows, s) ==
    IF rows = <<>> THEN <<>>
    ELSE IF Head(rows).symbol = s
         THEN <<Head(rows).profit>> \o GroupCol(Tail(rows), s)
         ELSE GroupCol(Tail(rows), s)

agg_total_profit(col) == SumSeq(SelectSeq(col, IsPos))
agg_total_loss(col) == SumSeq(SelectSeq(col, IsNeg))
agg_net_profit(col) == SumSeq(col)
\* Mutant: zero-profit trades are not counted.
IsNonZero(x) == x # 0
agg_trades_nonzero(col) == Len(SelectSeq(col, IsNonZero))
agg_trades(col) == Len(col)

\* df.groupby('交易品种')['盈利'].agg(...): one row per instrument of df.
groupby_agg(rows) ==
    {[symbol |-> s,
      total_profit |-> agg_total_profit(GroupCol(rows, s)),
      total_loss |-> agg_total_loss(GroupCol(rows, s)),
      net_profit |-> agg_net_profit(GroupCol(rows, s)),
      trades |-> agg_trades(GroupCol(rows, s))] : s \in {rows[k].symbol : k \in DOMAIN rows}}

IsDescending(q) == \A a, b \in DOMAIN q : a < b => q[a].net_profit >= q[b].net_profit

\* .sort_values('net_profit', ascending=False): the default sort kind is not
\* stable, so every descending order of the rows is a possible result.
sort_values(aggs) == {q \in AllOrders(aggs) : IsDescending(q)}

\* Series.idxmax / idxmin: label of the first occurrence of the extreme value.
idxmax(q) ==
    q[CHOOSE a \in DOMAIN q :
        /\ \A b \in DOMAIN q : q[a].net_profit >= q[b].net_profit
        /\ \A b \in DOMAIN q : b < a => q[b].net_profit # q[a].net_profit].symbol

idxmin(q) ==
    q[CHOOSE a \in DOMAIN q :
        /\ \A b \in DOMAIN q : q[a].net_profit <= q[b].net_profit
        /\ \A b \in DOMAIN q : b < a => q[b].net_profit # q[a].net_profit].symbol

\* summary.loc[symbol, 'net_profit']
loc_net(q, s) == (CHOOSE r \in Range(q) : r.symbol = s).net_profit

HasNegNet(r) == r.net_profit < 0

\* summary[summary['net_profit'] < 0]
LossRows(summary) == SelectSeq(summary, HasNegNet)

top_loss_symbol(summary) ==
    IF LossRows(summary) # <<>> THEN <<idxmin(LossRows(summary))>> ELSE None

\* 'top_loss': (top_loss_symbol, top_loss_value) if top_loss_symbol else None
top_loss(summary) ==
    LET tls == top_loss_symbol(summary)
    IN  IF tls # None /\ Truthy(tls[1])
        THEN <<tls[1], loc_net(summary, tls[1])>>
        ELSE None

Raise(name, exc, missing) ==
    [raised |-> TRUE, error |-> exc, missing |-> missing, filename |-> name,
     summary |-> <<>>, top_profit |-> None, top_loss |-> None]

Return(name, summary) ==
    [raised |-> FALSE, error |-> "", missing |-> {}, filename |-> name,
     summary |-> summary,
     top_profit |-> <<idxmax(summary), loc_net(summary, idxmax(summary))>>,
     top_loss |-> top_loss(summary)]

\* The outcomes process_file can have on the file `f` named `name`.
process_file(f, name) ==
    IF ~f.readable THEN {Raise(name, "read_excel", {})}
    ELSE IF required_cols \ f.columns # {}
    THEN {Raise(name, "missing_columns", required_cols \ f.columns)}
    ELSE LET df == iloc_drop_last(f.rows)
         IN  IF df = <<>>
             THEN {Raise(name, "idxmax_of_empty", {})}
             ELSE {Return(name, q) : q \in sort_values(groupby_agg(df))}

(***************************************************************************)
(* analyze_directory                                                       *)
(***************************************************************************)
Line(kind, file, symbol, value, count) ==
    [kind |-> kind, file |-> file, symbol |-> symbol, value |-> value, count |-> count]

\* symbol_records[symbol].append(v) on a defaultdict(list); a dict keeps its
\* keys in insertion order.
\* Mutant: the list of the instrument is replaced, not extended.
dict_append_overwrite(d, s, v) ==
    IF \E k \in DOMAIN d : d[k].symbol = s
    THEN [k \in DOMAIN d |->
            IF d[k].symbol = s THEN [symbol |-> s, profits |-> <<v>>] ELSE d[k]]
    ELSE Append(d, [symbol |-> s, profits |-> <<v>>])

dict_append(d, s, v) ==
    IF \E k \in DOMAIN d : d[k].symbol = s
    THEN [k \in DOMAIN d |->
            IF d[k].symbol = s
            THEN [symbol |-> s, profits |-> Append(d[k].profits, v)]
            ELSE d[k]]
    ELSE Append(d, [symbol |-> s, profits |-> <<v>>])

\* for symbol, row in result['summary'].iterrows(): symbol_records[symbol].append(...)
RECURSIVE record_rows(_, _)
record_rows(d, summary) ==
    IF summary = <<>> THEN d
    ELSE record_rows(dict_append(d, Head(summary).symbol, Head(summary).net_profit),
                     Tail(summary))

\* The lines one successful iteration prints.
file_report(result) ==
    <<Line("file", result.filename, Unset, 0, 0),
      Line("best", result.filename, result.top_profit[1], result.top_profit[2], 0),
      IF result.top_loss # None
      THEN Line("worst", result.filename, result.top_loss[1], 0 - result.top_loss[2], 0)
      ELSE Line("no_loss", result.filename, Unset, 0, 0)>>

\* pd.concat([res['summary'] for res in all_results])
RECURSIVE concat(_)
concat(results) ==
    IF results = <<>> THEN <<>>
    ELSE Head(results).summary \o concat(Tail(results))

\* Mutant: the first row of the instrument is kept, the others are dropped.
RECURSIVE ColFirst(_, _, _)
ColFirst(rows, s, col) ==
    IF rows = <<>> THEN 0
    ELSE IF Head(rows).symbol = s THEN Head(rows)[col] ELSE ColFirst(Tail(rows), s, col)

RECURSIVE ColSum(_, _, _)
ColSum(rows, s, col) ==
    IF rows = <<>> THEN 0
    ELSE (IF Head(rows).symbol = s THEN Head(rows)[col] ELSE 0) + ColSum(Tail(rows), s, col)

\* global_summary.groupby(global_summary.index).sum()
groupby_sum(rows) ==
    {[symbol |-> s,
      total_profit |-> ColSum(rows, s, "total_profit"),
      total_loss |-> ColSum(rows, s, "total_loss"),
      net_profit |-> ColSum(rows, s, "net_profit"),
      trades |-> ColSum(rows, s, "trades")] : s \in {rows[k].symbol : k \in DOMAIN rows}}

\* Mutant: p >= 0 for p > 0.
AllNonNeg(profits) == \A k \in DOMAIN profits : profits[k] >= 0
AllPos(profits) == \A k \in DOMAIN profits : profits[k] > 0
AllNeg(profits) == \A k \in DOMAIN profits : profits[k] < 0

Entry(rec) == [symbol |-> rec.symbol, sum |-> SumSeq(rec.profits), count |-> Len(rec.profits)]

\* Mutant: only the first file's value is looked at.
IsProfitable_first(rec) == Len(rec.profits) >= 2 /\ rec.profits[1] > 0
IsProfitable(rec) == Len(rec.profits) >= 2 /\ AllPos(rec.profits)
IsLosing(rec) == Len(rec.profits) >= 2 /\ ~AllPos(rec.profits) /\ AllNeg(rec.profits)

RECURSIVE MapEntry(_)
MapEntry(d) == IF d = <<>> THEN <<>> ELSE <<Entry(Head(d))>> \o MapEntry(Tail(d))

\* avg(a) > avg(b), the averages being sum / count with count > 0.
AvgGreater(a, b) == a.sum * b.count > b.sum * a.count

\* list.sort is stable: an entry goes after the entries it does not precede.
RECURSIVE InsertDesc(_, _)
InsertDesc(sorted, e) ==
    IF sorted = <<>> THEN <<e>>
    ELSE IF AvgGreater(e, Head(sorted)) THEN <<e>> \o sorted
    ELSE <<Head(sorted)>> \o InsertDesc(Tail(sorted), e)

RECURSIVE InsertAsc(_, _)
InsertAsc(sorted, e) ==
    IF sorted = <<>> THEN <<e>>
    ELSE IF AvgGreater(Head(sorted), e) THEN <<e>> \o sorted
    ELSE <<Head(sorted)>> \o InsertAsc(Tail(sorted), e)

RECURSIVE sort_desc(_)
sort_desc(l) == IF l = <<>> THEN <<>> ELSE InsertDesc(sort_desc(SubSeq(l, 1, Len(l) - 1)), l[Len(l)])

RECURSIVE sort_asc(_)
sort_asc(l) == IF l = <<>> THEN <<>> ELSE InsertAsc(sort_asc(SubSeq(l, 1, Len(l) - 1)), l[Len(l)])

classify_profitable(d) == sort_desc(MapEntry(SelectSeq(d, IsProfitable)))
classify_losing(d) == sort_asc(MapEntry(SelectSeq(d, IsLosing)))

RECURSIVE list_lines(_, _)
list_lines(kind, l) ==
    IF l = <<>> THEN <<>>
    ELSE <<Line(kind, 0, Head(l).symbol, Head(l).sum, Head(l).count)>> \o list_lines(kind, Tail(l))

(***************************************************************************)
(* The directories analysed                                                *)
(***************************************************************************)
Row == [symbol : Symbols, profit : Amounts]

RECURSIVE ProfitSum(_)
ProfitSum(rows) == IF rows = <<>> THEN 0 ELSE Head(rows).profit + ProfitSum(Tail(rows))

\* The trailing totals row of a report.
TotalsRow(trades) == [symbol |-> 0, profit |-> ProfitSum(trades)]

Sheet(trades) ==
    [readable |-> TRUE, columns |-> required_cols, rows |-> Append(trades, TotalsRow(trades))]

BadFiles ==
    {[readable |-> FALSE, columns |-> {}, rows |-> <<>>],
     [readable |-> TRUE, columns |-> {"symbol"}, rows |-> <<>>],
     [readable |-> TRUE, columns |-> required_cols, rows |-> <<>>]}

FilesWith(n) == IF n = 0 THEN BadFiles \cup {Sheet(<<>>)}
                ELSE {Sheet(t) : t \in [1 .. n -> Row]}

\* The listings of n files that hold at most k trades together.
RECURSIVE Dirs(_, _)
Dirs(n, k) ==
    IF n = 0 THEN {<<>>}
    ELSE UNION {LET rest == Dirs(n - 1, k - j)
                IN  {<<f>> \o d : f \in FilesWith(j), d \in rest} : j \in 0 .. k}

Init ==
    /\ files \in UNION {Dirs(n, MaxTrades) : n \in 0 .. MaxFiles}
    /\ pc = "start"
    /\ idx = 0
    /\ all_results = <<>>
    /\ symbol_records = <<>>
    /\ stdout = <<>>
    /\ global_summary = <<>>
    /\ global_top_profit = Unset
    /\ global_top_loss = Unset
    /\ profitable_symbols = <<>>
    /\ loss_symbols = <<>>

\* lines 60-63
NoFiles ==
    /\ pc = "start"
    /\ files = <<>>
    /\ stdout' = Append(stdout, Line("no_xlsx", 0, Unset, 0, 0))
    /\ pc' = "returned"
    /\ UNCHANGED <<files, idx, all_results, symbol_records, global_summary,
                   global_top_profit, global_top_loss, profitable_symbols, loss_symbols>>

\* lines 60-70
Begin ==
    /\ pc = "start"
    /\ files # <<>>
    /\ all_results' = <<>>
    /\ symbol_records' = <<>>
    /\ stdout' = Append(stdout, Line("found", 0, Unset, Len(files), 0))
    /\ idx' = 1
    /\ pc' = "loop"
    /\ UNCHANGED <<files, global_summary, global_top_profit, global_top_loss,
                   profitable_symbols, loss_symbols>>

\* lines 72-96: an iteration whose process_file returns
LoopOk ==
    /\ pc = "loop"
    /\ idx <= Len(files)
    /\ \E result \in process_file(files[idx], idx) :
         /\ ~result.raised
         /\ all_results' = Append(all_results, result)
         /\ symbol_records' = record_rows(symbol_records, result.summary)
         /\ stdout' = stdout \o file_report(result)
    /\ idx' = idx + 1
    /\ UNCHANGED <<files, pc, global_summary, global_top_profit, global_top_loss,
                   profitable_symbols, loss_symbols>>

\* Mutant: the try block is around the loop, so a failing file ends the loop.
LoopFail_abort ==
    /\ pc = "loop"
    /\ idx <= Len(files)
    /\ \E result \in process_file(files[idx], idx) :
         /\ result.raised
         /\ stdout' = Append(stdout, Line("error", result.filename, Unset, 0, 0))
    /\ idx' = Len(files) + 1
    /\ UNCHANGED <<files, pc, all_results, symbol_records, global_summary,
                   global_top_profit, global_top_loss, profitable_symbols, loss_symbols>>

\* lines 72-74, 98-99: an iteration whose process_file raises
LoopFail ==
    /\ pc = "loop"
    /\ idx <= Len(files)
    /\ \E result \in process_file(files[idx], idx) :
         /\ result.raised
         /\ stdout' = Append(stdout, Line("error", result.filename, Unset, 0, 0))
    /\ idx' = idx + 1
    /\ UNCHANGED <<files, pc, all_results, symbol_records, global_summary,
                   global_top_profit, global_top_loss, profitable_symbols, loss_symbols>>

\* lines 101-107: pd.concat of an empty list raises ValueError, which nothing catches
MergeRaises ==
    /\ pc = "loop"
    /\ idx > Len(files)
    /\ all_results = <<>>
    /\ stdout' = Append(stdout, Line("global", 0, Unset, 0, 0))
    /\ pc' = "raised"
    /\ UNCHANGED <<files, idx, all_results, symbol_records, global_summary,
                   global_top_profit, global_top_loss, profitable_symbols, loss_symbols>>

\* lines 101-122
GlobalSummary ==
    /\ pc = "loop"
    /\ idx > Len(files)
    /\ all_results # <<>>
    /\ \E q \in sort_values(groupby_sum(concat(all_results))) :
         /\ global_summary' = q
         /\ global_top_profit' = idxmax(q)
         /\ global_top_loss' = idxmin(q)
         /\ stdout' = stdout \o
              <<Line("global", 0, Unset, 0, 0),
                Line("global_best", 0, idxmax(q), loc_net(q, idxmax(q)), 0),
                Line("global_worst", 0, idxmin(q), 0 - loc_net(q, idxmin(q)), 0)>>
    /\ pc' = "classify"
    /\ UNCHANGED <<files, idx, all_results, symbol_records, profitable_symbols, loss_symbols>>

\* lines 124-159
Classify ==
    /\ pc = "classify"
    /\ profitable_symbols' = classify_profitable(symbol_records)
    /\ loss_symbols' = classify_losing(symbol_records)
    /\ stdout' = stdout
         \o (IF classify_profitable(symbol_records) # <<>>
             THEN list_lines("profitable", classify_profitable(symbol_records))
             ELSE <<Line("no_profitable", 0, Unset, 0, 0)>>)
         \o (IF classify_losing(symbol_records) # <<>>
             THEN list_lines("losing", classify_losing(symbol_records))
             ELSE <<Line("no_losing", 0, Unset, 0, 0)>>)
    /\ pc' = "done"
    /\ UNCHANGED <<files, idx, all_results, symbol_records, global_summary,
                   global_top_profit, global_top_loss>>

Next == NoFiles \/ Begin \/ LoopOk \/ LoopFail \/ MergeRaises \/ GlobalSummary \/ Classify

Spec == Init /\ [][Next]_vars

(***************************************************************************)
(* Vocabulary of the properties, stated on the sheets themselves           *)
(***************************************************************************)
\* The trade records of a sheet: its rows without the trailing totals row.
TradeRows(f) == [j \in 1 .. (Len(f.rows) - 1) |-> f.rows[j]]

Sign(x) == IF x > 0 THEN 1 ELSE IF x < 0 THEN 0 - 1 ELSE 0

\* Sum of the profits of the records of instrument s whose sign is in `signs`.
RECURSIVE TradeSum(_, _, _)
TradeSum(rows, s, signs) ==
    IF rows = <<>> THEN 0
    ELSE (IF Head(rows).symbol = s /\ Sign(Head(rows).profit) \in signs
          THEN Head(rows).profit ELSE 0) + TradeSum(Tail(rows), s, signs)

TradeCount(rows, s) == Cardinality({j \in DOMAIN rows : rows[j].symbol = s})

Traded(rows) == {rows[j].symbol : j \in DOMAIN rows}

NetOf(rows, s) == TradeSum(rows, s, {0 - 1, 0, 1})

Raises(k) == \E r \in process_file(files[k], k) : r.raised
Returns(k) == \E r \in process_file(files[k], k) : ~r.raised

\* The files the loop has gone through.
Processed == {k \in DOMAIN files : k < idx}
Succeeded == {k \in DOMAIN files : Returns(k)}

RECURSIVE SetSum(_, _)
SetSum(S, f) ==
    IF S = {} THEN 0
    ELSE LET x == CHOOSE x \in S : TRUE IN f[x] + SetSum(S \ {x}, f)

SummaryRows(summary, s) == {j \in DOMAIN summary : summary[j].symbol = s}

Merged == pc \in {"classify", "done"}

LinesOf(kind) == {j \in DOMAIN stdout : stdout[j].kind = kind}

\* C7: every aggregate process_file computed has totalProfit = sum of the
\* strictly positive profits >= 0, totalLoss = sum of the strictly negative
\* profits <= 0, netProfit = totalProfit + totalLoss and tradeCount = number of
\* records of the instrument in the file, one aggregate per traded instrument.
C7_AggregateInvariant ==
    \A i \in DOMAIN all_results :
        LET res == all_results[i]
            t == TradeRows(files[res.filename])
        IN  \A s \in Symbols :
              /\ Cardinality(SummaryRows(res.summary, s)) = (IF s \in Traded(t) THEN 1 ELSE 0)
              /\ \A j \in SummaryRows(res.summary, s) :
                   LET r == res.summary[j]
                   IN  /\ r.total_profit = TradeSum(t, s, {1})
                       /\ r.total_profit >= 0
                       /\ r.total_loss = TradeSum(t, s, {0 - 1})
                       /\ r.total_loss <= 0
                       /\ r.net_profit = r.total_profit + r.total_loss
                       /\ r.net_profit = NetOf(t, s)
                       /\ r.trades = TradeCount(t, s)

\* A file whose instrument has a winning, a losing and hence >= 2 trades was aggregated.
C7_Witness ==
    \E i \in DOMAIN all_results : \E j \in DOMAIN all_results[i].summary :
        LET r == all_results[i].summary[j]
        IN  r.total_profit > 0 /\ r.total_loss < 0 /\ r.trades >= 2

\* C5: per file, the best instrument has the maximum netProfit; a worst
\* instrument is returned iff some instrument has netProfit < 0, and it then
\* has the minimum netProfit of the file.
C5_BestWorstPerFile ==
    \A i \in DOMAIN all_results :
        LET res == all_results[i]
            t == TradeRows(files[res.filename])
        IN  /\ res.top_profit # None
            /\ res.top_profit[1] \in Traded(t)
            /\ res.top_profit[2] = NetOf(t, res.top_profit[1])
            /\ \A s \in Traded(t) : res.top_profit[2] >= NetOf(t, s)
            /\ (res.top_loss # None) <=> (\E s \in Traded(t) : NetOf(t, s) < 0)
            /\ res.top_loss # None =>
                 /\ res.top_loss[1] \in Traded(t)
                 /\ res.top_loss[2] = NetOf(t, res.top_loss[1])
                 /\ res.top_loss[2] < 0
                 /\ \A s \in Traded(t) : res.top_loss[2] <= NetOf(t, s)

\* C3: a readable sheet with the required columns and no trade row left after
\* the totals row is dropped gives a report with empty aggregates, no best and
\* no worst instrument, and is not reported as failed.
C3_EmptyFileSucceeds ==
    \A k \in Processed :
        (/\ files[k].readable
         /\ required_cols \subseteq files[k].columns
         /\ files[k].rows # <<>>
         /\ TradeRows(files[k]) = <<>>)
        => /\ \E i \in DOMAIN all_results :
                /\ all_results[i].filename = k
                /\ all_results[i].summary = <<>>
                /\ all_results[i].top_profit = None
                /\ all_results[i].top_loss = None
           /\ \A j \in LinesOf("error") : stdout[j].file # k

\* C2: whatever files fail, the run never ends in an uncaught error.
C2_NoUncaughtError == pc # "raised"

\* C1: after the merge the global worst instrument is the one of minimum
\* global netProfit among those with netProfit < 0, and none is reported when
\* no instrument has a negative global netProfit.
C1_GlobalWorst ==
    Merged =>
        IF \E j \in DOMAIN global_summary : global_summary[j].net_profit < 0
        THEN /\ \E j \in DOMAIN global_summary :
                  /\ global_summary[j].symbol = global_top_loss
                  /\ global_summary[j].net_profit < 0
                  /\ \A m \in DOMAIN global_summary :
                       global_summary[j].net_profit <= global_summary[m].net_profit
             /\ \A j \in LinesOf("global_worst") : stdout[j].symbol = global_top_loss
        ELSE /\ global_top_loss = Unset
             /\ LinesOf("global_worst") = {}

\* C8: the global aggregate of an instrument is the field-wise sum of its
\* aggregates over exactly the successfully processed files that contain it;
\* an instrument is in the global summary iff some such file contains it; and
\* global netProfit = totalProfit + totalLoss.
C8_MergeAdditive ==
    Merged =>
        /\ {all_results[i].filename : i \in DOMAIN all_results} = Succeeded
        /\ Len(all_results) = Cardinality(Succeeded)
        /\ \A s \in Symbols :
             LET holders == {i \in DOMAIN all_results : SummaryRows(all_results[i].summary, s) # {}}
                 Field(i, col) ==
                     all_results[i].summary[CHOOSE j \in SummaryRows(all_results[i].summary, s) : TRUE][col]
                 TP == [i \in holders |-> Field(i, "total_profit")]
                 TL == [i \in holders |-> Field(i, "total_loss")]
                 NP == [i \in holders |-> Field(i, "net_profit")]
                 TC == [i \in holders |-> Field(i, "trades")]
             IN  /\ Cardinality(SummaryRows(global_summary, s)) = (IF holders # {} THEN 1 ELSE 0)
                 /\ (holders # {}) <=> (\E k \in Succeeded : s \in Traded(TradeRows(files[k])))
                 /\ \A j \in SummaryRows(global_summary, s) :
                      LET g == global_summary[j]
                      IN  /\ g.total_profit = SetSum(holders, TP)
                          /\ g.total_loss = SetSum(holders, TL)
                          /\ g.net_profit = SetSum(holders, NP)
                          /\ g.trades = SetSum(holders, TC)
                          /\ g.net_profit = g.total_profit + g.total_loss

\* An instrument traded in two successfully processed files was merged.
C8_Witness ==
    /\ Merged
    /\ \E s \in Symbols :
         /\ Cardinality({i \in DOMAIN all_results : SummaryRows(all_results[i].summary, s) # {}}) >= 2
         /\ \E j \in SummaryRows(global_summary, s) : global_summary[j].net_profit # 0

\* The netProfit values of instrument s in the results that contain it, in order.
RECURSIVE NetSeq(_, _)
NetSeq(results, s) ==
    IF results = <<>> THEN <<>>
    ELSE LET last == results[Len(results)]
             js == SummaryRows(last.summary, s)
         IN  NetSeq(SubSeq(results, 1, Len(results) - 1), s)
             \o (IF js = {} THEN <<>> ELSE <<last.summary[CHOOSE j \in js : TRUE].net_profit>>)

\* C10: after every iteration symbol_records[s] is the sequence of s's
\* netProfit values of the entries of all_results that contain s, in
\* processing order, an instrument in no entry having no record; after the
\* loop the sum of symbol_records[s] is s's global netProfit.
C10_AccumulatorsInStep ==
    /\ \A a, b \in DOMAIN symbol_records :
         symbol_records[a].symbol = symbol_records[b].symbol => a = b
    /\ \A s \in Symbols :
         LET ks == {k \in DOMAIN symbol_records : symbol_records[k].symbol = s}
         IN  /\ (ks = {}) <=> (NetSeq(all_results, s) = <<>>)
             /\ \A k \in ks : symbol_records[k].profits = NetSeq(all_results, s)
             /\ Merged => \A k \in ks : \A j \in SummaryRows(global_summary, s) :
                    SumSeq(symbol_records[k].profits) = global_summary[j].net_profit
    /\ Merged => \A j \in DOMAIN global_summary :
           \E k \in DOMAIN symbol_records : symbol_records[k].symbol = global_summary[j].symbol

\* Two files were accumulated and an instrument has a value from each.
C10_Witness ==
    /\ Len(all_results) >= 2
    /\ \E k \in DOMAIN symbol_records :
         /\ Len(symbol_records[k].profits) >= 2
         /\ symbol_records[k].profits[1] # symbol_records[k].profits[2]

\* C6: at the end an instrument is in the consistently-profitable list iff
\* it has per-file net values from >= 2 successfully processed files and all
\* are > 0, in the consistently-losing list iff it has >= 2 and all are < 0;
\* no instrument is in both lists.
C6_ClassificationExact ==
    pc = "done" =>
        \A s \in Symbols :
            LET inFiles == {k \in Succeeded : s \in Traded(TradeRows(files[k]))}
                Net(k) == NetOf(TradeRows(files[k]), s)
                inProfitable == \E j \in DOMAIN profitable_symbols : profitable_symbols[j].symbol = s
                inLosing == \E j \in DOMAIN loss_symbols : loss_symbols[j].symbol = s
            IN  /\ inProfitable <=> (Cardinality(inFiles) >= 2 /\ \A k \in inFiles : Net(k) > 0)
                /\ inLosing <=> (Cardinality(inFiles) >= 2 /\ \A k \in inFiles : Net(k) < 0)
                /\ ~(inProfitable /\ inLosing)

\* The run ended with a consistently profitable or a consistently losing instrument.
C6_Witness ==
    /\ pc = "done"
    /\ (profitable_symbols # <<>> \/ loss_symbols # <<>>)

\* C4: a file on which process_file raises gets an error line naming it and
\* adds nothing to all_results or symbol_records; every other file is
\* processed; the global summary holds exactly the aggregates of the files
\* that succeeded, wherever the failing file stands in the listing.
C4_FailureIsolation ==
    /\ \A k \in Processed :
         /\ Raises(k) =>
              /\ Cardinality({j \in LinesOf("error") : stdout[j].file = k}) = 1
              /\ \A i \in DOMAIN all_results : all_results[i].filename # k
         /\ Returns(k) =>
              /\ Cardinality({i \in DOMAIN all_results : all_results[i].filename = k}) = 1
              /\ \A j \in LinesOf("error") : stdout[j].file # k
    /\ \A s \in Symbols :
         SetSum({k \in DOMAIN symbol_records : symbol_records[k].symbol = s},
                [k \in DOMAIN symbol_records |-> Len(symbol_records[k].profits)])
           = Cardinality({k \in Processed : Returns(k) /\ s \in Traded(TradeRows(files[k]))})
    /\ Merged =>
         /\ Processed = DOMAIN files
         /\ \A s \in Symbols :
              LET from == {k \in Succeeded : s \in Traded(TradeRows(files[k]))}
                  TP == [k \in from |-> TradeSum(TradeRows(files[k]), s, {1})]
                  TL == [k \in from |-> TradeSum(TradeRows(files[k]), s, {0 - 1})]
                  TC == [k \in from |-> TradeCount(TradeRows(files[k]), s)]
              IN  /\ Cardinality(SummaryRows(global_summary, s)) = (IF from # {} THEN 1 ELSE 0)
                  /\ \A j \in SummaryRows(global_summary, s) :
                       /\ global_summary[j].total_profit = SetSum(from, TP)
                       /\ global_summary[j].total_loss = SetSum(from, TL)
                       /\ global_summary[j].net_profit = SetSum(from, TP) + SetSum(from, TL)
                       /\ global_summary[j].trades = SetSum(from, TC)

\* The run merged a listing whose first file failed and whose later file succeeded.
C4_Witness ==
    /\ Merged
    /\ Len(files) >= 2
    /\ Raises(1)
    /\ \E k \in DOMAIN files : Returns(k)

\* The loop of analyze_directory run over the files in the order `order`.
RefStep(acc, f, name) ==
    LET r == CHOOSE r \in process_file(f, name) : TRUE
    IN  IF r.raised THEN acc
        ELSE [results |-> Append(acc.results, r),
              records |-> record_rows(acc.records, r.summary)]

RECURSIVE RefLoop(_, _, _)
RefLoop(order, k, acc) ==
    IF k > Len(files) THEN acc
    ELSE RefLoop(order, k + 1, RefStep(acc, files[order[k]], order[k]))

RefRun(order) == RefLoop(order, 1, [results |-> <<>>, records |-> <<>>])

\* C9: processing the same files in any other order gives the same global
\* aggregates and the same consistently profitable / losing instruments with
\* the same means and file counts.
C9_OrderIndependent ==
    pc = "done" =>
        \A order \in Permutations(DOMAIN files) :
            LET ref == RefRun(order)
            IN  /\ Range(global_summary) = groupby_sum(concat(ref.results))
                /\ Range(profitable_symbols) = Range(classify_profitable(ref.records))
                /\ Range(loss_symbols) = Range(classify_losing(ref.records))

\* Two files with different aggregates of one instrument were both processed
\* successfully, merged and classified.
C9_Witness ==
    /\ pc = "done"
    /\ Len(all_results) >= 2
    /\ all_results[1].summary # all_results[2].summary
    /\ \E k \in DOMAIN symbol_records : Len(symbol_records[k].profits) >= 2

====
